---- MODULE Spec2Model ----
(***************************************************************************)
(* State-machine model of src/src/main.js: the camera start-up, the        *)
(* detect/draw refresh loop, the pick handler with its countdown, the      *)
(* cropped capture, the spotlight modal and the flip/threshold handlers.   *)
(*                                                                         *)
(* Units: scores and thresholds are in hundredths (0.9 is 90); box         *)
(* coordinates are in half pixels (3 is 1.5 px) so that Math.floor acts;   *)
(* frame dimensions are whole pixels; times are milliseconds.              *)
(***************************************************************************)
EXTENDS Integers, Sequences, FiniteSets, Bags, TLC

\* ---- bounds of the model ----
MaxPreds == 2        \* longest list the detector returns
MaxPicks == 1        \* pick handlers that may be inside their countdown at once
MaxCams == 2         \* setupCamera calls that may be unresolved at once
MaxTime == 7000      \* the clock stops advancing here
FrameW == 4          \* videoWidth once metadata is loaded (pixels)
FrameH == 3          \* videoHeight once metadata is loaded (pixels)
MaxCoord == 4        \* box x and y start at -MaxCoord half pixels
MaxSize == 5         \* box w and h range over 0..MaxSize half pixels
MaxFrame == 3        \* frame sides range over 0..MaxFrame pixels

\* ---- program constants ----
HighlightMs == 3500
Null == -1

\* the clock readings the model distinguishes: one short of the highlight duration, and exactly it
TickSteps == {HighlightMs - 1, HighlightMs}

\* ---- values ----
Max(a, b) == IF a >= b THEN a ELSE b
Min(a, b) == IF a <= b THEN a ELSE b
Floor(v) == v \div 2

Box1 == <<1, 0, 5, 4>>
Box2 == <<0, 0, 8, 6>>
Box3 == <<-3, 2, 4, 2>>
Box4 == <<3, 1, 4, 5>>
Person90 == [class |-> "person", score |-> 90, bbox |-> Box1]
Dog95 == [class |-> "dog", score |-> 95, bbox |-> Box2]
Person30 == [class |-> "person", score |-> 30, bbox |-> Box3]
Person60 == [class |-> "person", score |-> 60, bbox |-> Box4]
\* what the detector reports in the running program
Detections == {Person90, Dog95}
\* what it reports where draw is observed on its own
RawDetections == {Person90, Dog95, Person30, Person60}
Undefined == [class |-> "undefined", score |-> 0, bbox |-> <<0, 0, 0, 0>>]
Thresholds == {50, 90}

SeqsUpTo(S, n) == UNION {[1..k -> S] : k \in 0..n}

NoImage == [kind |-> "null", sx |-> 0, sy |-> 0, w |-> 0, h |-> 0, mirrored |-> FALSE]
Thrown == [kind |-> "throw", sx |-> 0, sy |-> 0, w |-> 0, h |-> 0, mirrored |-> FALSE]
NotRun == [kind |-> "notrun", sx |-> 0, sy |-> 0, w |-> 0, h |-> 0, mirrored |-> FALSE]
NoArgs == [det |-> Undefined, vw |-> 0, vh |-> 0, mode |-> "user"]

\* captureSelectedCrop with the size test off by one: a 1-pixel side is accepted
captureSelectedCropLoose(det, vw, vh, mode) ==
  IF det = Undefined THEN Thrown
  ELSE IF vw = 0 \/ vh = 0 THEN NoImage
  ELSE LET sx == Max(0, Floor(det.bbox[1]))
           sy == Max(0, Floor(det.bbox[2]))
           sw == Min(vw - sx, Floor(det.bbox[3]))
           sh == Min(vh - sy, Floor(det.bbox[4]))
       IN IF sw < 1 \/ sh < 1 THEN NoImage
          ELSE [kind |-> "image", sx |-> sx, sy |-> sy, w |-> sw, h |-> sh,
                mirrored |-> (mode = "user")]

\* captureSelectedCrop(det) with the globals it reads passed in
captureSelectedCrop(det, vw, vh, mode) ==
  IF det = Undefined THEN Thrown
  ELSE IF vw = 0 \/ vh = 0 THEN NoImage
  ELSE LET sx == Max(0, Floor(det.bbox[1]))
           sy == Max(0, Floor(det.bbox[2]))
           sw == Min(vw - sx, Floor(det.bbox[3]))
           sh == Min(vh - sy, Floor(det.bbox[4]))
       IN IF sw <= 1 \/ sh <= 1 THEN NoImage
          ELSE [kind |-> "image", sx |-> sx, sy |-> sy, w |-> sw, h |-> sh,
                mirrored |-> (mode = "user")]

\* the filter predicate with the comparison turned round
KeepBelow(p, t) == p.class = "person" /\ p.score <= t

\* the filter predicate with a strict comparison
KeepStrict(p, t) == p.class = "person" /\ p.score > t

\* the predicate of preds.filter in draw
Keep(p, t) == p.class = "person" /\ p.score >= t
Filter(preds, t) == SelectSeq(preds, LAMBDA p : Keep(p, t))

\* isChosen testing only that some index is stored, not which
IsChosenAny(i, idx, t, until) == idx # Null /\ t < until

\* isChosen with the expiry instant still counted as active
IsChosenInclusive(i, idx, t, until) == idx = i /\ t <= until

\* isChosen of draw, for the candidate at 0-based index i
IsChosen(i, idx, t, until) == idx = i /\ t < until

\* Math.floor(Math.random() * n): the indices the draw can produce
RandomIndex(n) == IF n = 0 THEN {0} ELSE 0..(n - 1)

VARIABLES
  mainPc,        \* where main() is: camera, webgl, cpu, ready, load, started, error
  statusEl,      \* statusEl.textContent
  errors,        \* number of times the catch of main() wrote the error status
  running,       \* the running flag
  facingMode,    \* "user" | "environment"
  video,         \* [src: facing of video.srcObject or "none", ready: metadata loaded]
  gum,           \* bag of getUserMedia requests not yet settled: [facing, byMain]
  setups,        \* bag of setupCamera calls past getUserMedia: [stage: meta | raf, byMain]
  inflight,      \* model.detect calls not yet resolved
  rafLoop,       \* scheduled requestAnimationFrame(loop) callbacks
  minScore,
  currentPeople,
  selectedIdx,
  selectUntil,
  overlay,       \* what the last draw put on the canvas: isChosen per candidate
  picks,         \* bag of pick handlers inside their countdown: the timer each waits for (1..3)
  spot,          \* spotlight modal: [show, img]
  toast,         \* [text, show]
  now,           \* performance.now()
  pickedAt,      \* history: time of the last index draw, Null before the first
  capArgs,       \* arguments and globals of a capture call made on its own
  capRes,        \* what that call produced
  rawPreds,      \* a detector result whose draw is observed on its own
  rawDone,       \* whether draw has consumed rawPreds
  drawnAt,       \* history: per threshold, what draw made of rawPreds under it
  inferStream    \* history, where kept: "current" or "previous", the stream the inference
                 \* in flight began on relative to the one installed now; else "untracked"

vars == <<mainPc, statusEl, errors, running, facingMode, video, gum, setups, inflight, rafLoop,
          minScore, currentPeople, selectedIdx, selectUntil, overlay, picks, spot,
          toast, now, pickedAt, capArgs, capRes, rawPreds, rawDone, drawnAt, inferStream>>

camVars == <<facingMode, video, gum, setups>>
loopVars == <<inflight, rafLoop, currentPeople, overlay>>
selVars == <<selectedIdx, selectUntil, pickedAt>>
capVars == <<capArgs, capRes, rawPreds, rawDone, drawnAt>>
mainVars == <<mainPc, statusEl, errors, running>>

videoWidth == IF video.ready THEN FrameW ELSE 0
videoHeight == IF video.ready THEN FrameH ELSE 0

\* video.srcObject holds a stream whose tracks have not been stopped: tracks
\* are stopped only when setupCamera replaces the stream
TracksLive == video.src # "none"

\* the getUserMedia requests and setupCamera calls there can be
Requests == [facing : {"user", "environment"}, byMain : BOOLEAN]
Calls == [stage : {"meta", "raf"}, byMain : BOOLEAN]

\* the bag holding e once
One(e) == SetToBag({e})

Base ==
  /\ mainPc = "camera"
  /\ statusEl = "Starting camera"
  /\ errors = 0
  /\ running = TRUE
  /\ facingMode = "user"
  /\ video = [src |-> "none", ready |-> FALSE]
  /\ gum = One([facing |-> "user", byMain |-> TRUE])
  /\ setups = EmptyBag
  /\ inflight = 0
  /\ rafLoop = 0
  /\ minScore \in Thresholds
  /\ currentPeople = <<>>
  /\ selectedIdx = Null
  /\ selectUntil = 0
  /\ overlay = <<>>
  /\ picks = EmptyBag
  /\ spot = [show |-> FALSE, img |-> NoImage, caption |-> ""]
  /\ toast = [text |-> "", show |-> FALSE]
  /\ now = 0
  /\ pickedAt = Null

\* no draw of the list in view yet, under any threshold
NoneDrawn == [t \in Thresholds |-> [done |-> FALSE, out |-> <<>>]]

\* the state once main() has run to its first await and the handlers are registered
Init ==
  /\ Base /\ capArgs = NoArgs /\ capRes = NotRun /\ rawPreds = <<>> /\ rawDone = TRUE
  /\ drawnAt = NoneDrawn
  /\ inferStream = "untracked"

showToast(msg) == toast' = [text |-> msg, show |-> TRUE]

\* the setTimeout of showToast removes the "show" class
ToastTimeout ==
  /\ toast.show
  /\ toast' = [toast EXCEPT !.show = FALSE]
  /\ UNCHANGED <<mainVars, camVars, loopVars, selVars, capVars, inferStream, minScore, picks, spot, now>>

\* ---- setupCamera ----
\* getUserMedia resolves: stop the old tracks, install the stream and the
\* onloadedmetadata handler of this call. The handler replaces that of any call
\* still waiting for metadata, whose promise is then never resolved.
GumResolve(g) ==
  /\ BagIn(g, gum)
  /\ video' = [src |-> g.facing, ready |-> FALSE]
  /\ gum' = gum (-) One(g)
  /\ setups' = [c \in {d \in DOMAIN setups : d.stage # "meta"} |-> setups[c]]
                (+) One([stage |-> "meta", byMain |-> g.byMain])
  /\ inferStream' = IF inferStream = "current" /\ inflight > 0 THEN "previous" ELSE inferStream
  /\ UNCHANGED <<mainVars, facingMode, loopVars, selVars, capVars, minScore, picks, spot,
                 toast, now>>

\* the catch block of main
mainCatch ==
  /\ mainPc' = "error"
  /\ statusEl' = "Error"
  /\ errors' = errors + 1
  /\ UNCHANGED running

\* getUserMedia rejects: main() lands in its catch, a flip handler just ends
GumReject(g) ==
  /\ BagIn(g, gum)
  /\ gum' = gum (-) One(g)
  /\ IF g.byMain THEN mainCatch ELSE UNCHANGED mainVars
  /\ UNCHANGED <<facingMode, video, setups, loopVars, selVars, capVars, inferStream, minScore, picks,
                 spot, toast, now>>

\* video.onloadedmetadata: video.play() and requestAnimationFrame
LoadedMetadata(c) ==
  /\ BagIn(c, setups)
  /\ c.stage = "meta"
  /\ ~video.ready
  /\ video' = [video EXCEPT !.ready = TRUE]
  /\ setups' = (setups (-) One(c)) (+) One([c EXCEPT !.stage = "raf"])
  /\ UNCHANGED <<mainVars, facingMode, gum, loopVars, selVars, capVars, inferStream, minScore, picks,
                 spot, toast, now>>

\* setupCamera resolving also calls loop(), as a handler that restarts
\* detection after a camera switch would
CameraReadyRestartsLoop(c) ==
  /\ BagIn(c, setups)
  /\ c.stage = "raf"
  /\ setups' = setups (-) One(c)
  /\ IF c.byMain
       THEN /\ mainPc' = "webgl"
            /\ statusEl' = "Initializing TensorFlow.js"
            /\ UNCHANGED <<errors, running, inflight>>
       ELSE /\ UNCHANGED mainVars
            /\ inflight' = inflight + 1
  /\ UNCHANGED <<facingMode, video, gum, rafLoop, currentPeople, overlay, selVars, capVars, inferStream,
                 minScore, picks, spot, toast, now>>

\* the animation-frame callback of setupCamera: fitCanvas() and resolve();
\* main() continues to tf.setBackend("webgl")
CameraReady(c) ==
  /\ BagIn(c, setups)
  /\ c.stage = "raf"
  /\ setups' = setups (-) One(c)
  /\ IF c.byMain
       THEN /\ mainPc' = "webgl"
            /\ statusEl' = "Initializing TensorFlow.js"
            /\ UNCHANGED <<errors, running>>
       ELSE UNCHANGED mainVars
  /\ UNCHANGED <<facingMode, video, gum, loopVars, selVars, capVars, inferStream, minScore, picks, spot,
                 toast, now>>

\* flipBtn click
FlipClick ==
  /\ BagCardinality(gum) + BagCardinality(setups) < MaxCams
  /\ facingMode' = IF facingMode = "user" THEN "environment" ELSE "user"
  /\ showToast(IF facingMode' = "user" THEN "Switching camera: Front"
                                        ELSE "Switching camera: Rear")
  /\ gum' = gum (+) One([facing |-> facingMode', byMain |-> FALSE])
  /\ UNCHANGED <<mainVars, video, setups, loopVars, selVars, capVars, inferStream, minScore, picks, spot,
                 now>>

\* ---- main ----
\* tf.setBackend("webgl") resolves
WebglOk ==
  /\ mainPc = "webgl"
  /\ mainPc' = "ready"
  /\ UNCHANGED <<statusEl, errors, running, camVars, loopVars, selVars, capVars, inferStream, minScore,
                 picks, spot, toast, now>>

\* tf.setBackend("webgl") rejects: .catch(() => tf.setBackend("cpu"))
WebglFail ==
  /\ mainPc = "webgl"
  /\ mainPc' = "cpu"
  /\ UNCHANGED <<statusEl, errors, running, camVars, loopVars, selVars, capVars, inferStream, minScore,
                 picks, spot, toast, now>>

\* tf.setBackend("cpu") resolves
CpuOk ==
  /\ mainPc = "cpu"
  /\ mainPc' = "ready"
  /\ UNCHANGED <<statusEl, errors, running, camVars, loopVars, selVars, capVars, inferStream, minScore,
                 picks, spot, toast, now>>

\* tf.ready() resolves; cocoSsd.load is called
TfReady ==
  /\ mainPc = "ready"
  /\ mainPc' = "load"
  /\ statusEl' = "Loading detector"
  /\ UNCHANGED <<errors, running, camVars, loopVars, selVars, capVars, inferStream, minScore, picks,
                 spot, toast, now>>

\* the record of the in-flight inference starts afresh
Fresh == IF inferStream = "untracked" THEN "untracked" ELSE "current"

\* the body of loop() up to its await on model.detect(video, 50)
loop ==
  IF running THEN inflight' = inflight + 1 /\ inferStream' = Fresh
             ELSE UNCHANGED <<inflight, inferStream>>

\* cocoSsd.load resolves: warm-up, then loop() is called
ModelLoaded ==
  /\ mainPc = "load"
  /\ mainPc' = "started"
  /\ statusEl' = "Detecting people"
  /\ loop
  /\ UNCHANGED <<errors, running, camVars, rafLoop, currentPeople, overlay, selVars,
                 capVars, minScore, picks, spot, toast, now>>

\* a start-up failure after which loop() is still called (loop() placed after
\* the try block instead of inside it)
StartupFailStartsLoop ==
  /\ mainPc \in {"cpu", "ready", "load"}
  /\ mainCatch
  /\ inflight' = inflight + 1
  /\ UNCHANGED <<camVars, rafLoop, currentPeople, overlay, selVars, capVars, inferStream, minScore,
                 picks, spot, toast, now>>

\* the cpu fallback, tf.ready(), cocoSsd.load or the warm-up throws
StartupFail ==
  /\ mainPc \in {"cpu", "ready", "load"}
  /\ mainCatch
  /\ UNCHANGED <<camVars, loopVars, selVars, capVars, inferStream, minScore, picks, spot, toast, now>>

\* ---- refresh loop ----
\* the second half of draw: people becomes currentPeople and every candidate
\* is painted
paint(people) ==
  /\ currentPeople' = people
  /\ overlay' = [i \in 1..Len(people) |-> IsChosen(i - 1, selectedIdx, now, selectUntil)]

\* draw(preds): filter into currentPeople and paint every candidate
draw(preds) == paint(Filter(preds, minScore))

\* what draw makes of the results the detector can resolve with; results that
\* filter to the same list are taken together
Filtered == {Filter(preds, minScore) : preds \in SeqsUpTo(Detections, MaxPreds)}

\* a refresh that clears the stored index once the highlight has expired
DetectDoneClearsExpired ==
  /\ inflight > 0
  /\ \E people \in Filtered : paint(people)
  /\ inflight' = inflight - 1
  /\ inferStream' = Fresh
  /\ rafLoop' = rafLoop + 1
  /\ selectedIdx' = IF now < selectUntil THEN selectedIdx ELSE Null
  /\ UNCHANGED <<mainVars, camVars, selectUntil, pickedAt, capVars, minScore, picks, spot,
                 toast, now>>

\* a draw that throws on a selection index past the end of the list, so that
\* the next frame is never requested
DetectDoneStaleThrows ==
  /\ inflight > 0
  /\ \E people \in Filtered : paint(people)
  /\ inflight' = inflight - 1
  /\ inferStream' = Fresh
  /\ rafLoop' = IF selectedIdx >= Len(currentPeople') THEN rafLoop ELSE rafLoop + 1
  /\ UNCHANGED <<mainVars, camVars, selVars, capVars, minScore, picks, spot, toast, now>>

\* model.detect resolves with preds: draw(preds); requestAnimationFrame(loop)
\* (draw(preds) for each preds of SeqsUpTo(Detections, MaxPreds), by way of Filtered)
DetectDone ==
  /\ inflight > 0
  /\ \E people \in Filtered : paint(people)
  /\ inflight' = inflight - 1
  /\ inferStream' = Fresh
  /\ rafLoop' = rafLoop + 1
  /\ UNCHANGED <<mainVars, camVars, selVars, capVars, minScore, picks, spot, toast, now>>

\* the animation-frame callback: loop()
LoopFrame ==
  /\ rafLoop > 0
  /\ rafLoop' = rafLoop - 1
  /\ loop
  /\ UNCHANGED <<mainVars, camVars, currentPeople, overlay, selVars, capVars, minScore,
                 picks, spot, toast, now>>

\* ---- the other handlers ----
\* confSlider input
SetThreshold ==
  /\ \E t \in Thresholds \ {minScore} : minScore' = t
  /\ UNCHANGED <<mainVars, camVars, loopVars, selVars, capVars, inferStream, picks, spot, toast, now>>

\* showSpotlight(dataUrl, caption)
showSpotlight(dataUrl) ==
  IF dataUrl.kind # "image" THEN UNCHANGED spot
  ELSE spot' = [show |-> TRUE, img |-> dataUrl,
                caption |-> "Ready to answer the next question!"]

\* hideSpotlight, from the close button or the backdrop
HideSpotlight ==
  /\ spot.show
  /\ spot' = [show |-> FALSE, img |-> NoImage, caption |-> spot.caption]
  /\ UNCHANGED <<mainVars, camVars, loopVars, selVars, capVars, inferStream, minScore, picks, toast, now>>

NoStudentsMsg == "No students detected. Adjust camera/angle."

\* the empty-list branch without its return: the countdown starts all the same
PickEmptyFallsThrough ==
  /\ Len(currentPeople) = 0
  /\ showToast("Picking in 3")
  /\ selectedIdx' = Null
  /\ picks' = picks (+) One(1)
  /\ UNCHANGED <<mainVars, camVars, loopVars, selectUntil, pickedAt, capVars, inferStream, minScore,
                 spot, now>>

\* pickBtn click with no candidates
PickEmpty ==
  /\ Len(currentPeople) = 0
  /\ showToast(NoStudentsMsg)
  /\ selectedIdx' = Null
  /\ UNCHANGED <<mainVars, camVars, loopVars, selectUntil, pickedAt, capVars, inferStream,
                 minScore, picks, spot, now>>

\* pickBtn click with candidates: the countdown starts
PickStart ==
  /\ Len(currentPeople) # 0
  /\ BagCardinality(picks) < MaxPicks
  /\ showToast("Picking in 3")
  /\ picks' = picks (+) One(1)
  /\ UNCHANGED <<mainVars, camVars, loopVars, selVars, capVars, inferStream, minScore, spot, now>>

\* the first or second 400 ms timer fires: the next toast and the next timer
PickCountdown(n) ==
  /\ n \in {1, 2}
  /\ BagIn(n, picks)
  /\ showToast(IF n = 1 THEN "2" ELSE "1")
  /\ picks' = (picks (-) One(n)) (+) One(n + 1)
  /\ UNCHANGED <<mainVars, camVars, loopVars, selVars, capVars, inferStream, minScore, spot, now>>

\* currentPeople[i] for a 0-based i, undefined out of range
At(list, i) == IF i >= 0 /\ i < Len(list) THEN list[i + 1] ELSE Undefined

\* the last timer fires: draw the index, set the expiry, capture, spotlight
PickFinish ==
  /\ BagIn(3, picks)
  /\ picks' = picks (-) One(3)
  /\ \E i \in RandomIndex(Len(currentPeople)) :
       /\ selectedIdx' = i
       /\ selectUntil' = now + HighlightMs
       /\ showToast("Selected!")
       /\ LET chosen == At(currentPeople, i)
              dataUrl == captureSelectedCrop(chosen, videoWidth, videoHeight, facingMode)
          IN showSpotlight(dataUrl)
  /\ pickedAt' = now
  /\ UNCHANGED <<mainVars, camVars, loopVars, capVars, inferStream, minScore, now>>

\* performance.now() advances
Tick ==
  /\ \E d \in TickSteps : now + d <= MaxTime /\ now' = now + d
  /\ UNCHANGED <<mainVars, camVars, loopVars, selVars, capVars, inferStream, minScore, picks, spot, toast>>

\* every handler and callback of the program, at one reading of the clock
Next ==
  \/ \E g \in Requests : GumResolve(g) \/ GumReject(g)
  \/ \E c \in Calls : LoadedMetadata(c) \/ CameraReady(c)
  \/ FlipClick
  \/ WebglOk \/ WebglFail \/ CpuOk \/ TfReady \/ ModelLoaded \/ StartupFail
  \/ DetectDone \/ LoopFrame
  \/ SetThreshold \/ HideSpotlight \/ ToastTimeout
  \/ PickEmpty \/ PickStart
  \/ \E n \in {1, 2} : PickCountdown(n)
  \/ PickFinish

Spec == Init /\ [][Next]_vars

\* the program with the stream of each inference on record
StreamInit ==
  /\ Base /\ capArgs = NoArgs /\ capRes = NotRun /\ rawPreds = <<>> /\ rawDone = TRUE
  /\ drawnAt = NoneDrawn
  /\ inferStream = "current"

StreamSpec == StreamInit /\ [][Next]_vars

\* the program with the clock advancing and the flip button left alone
ClockNext ==
  \/ \E g \in Requests : GumResolve(g) \/ GumReject(g)
  \/ \E c \in Calls : LoadedMetadata(c) \/ CameraReady(c)
  \/ WebglOk \/ WebglFail \/ CpuOk \/ TfReady \/ ModelLoaded \/ StartupFail
  \/ DetectDone \/ LoopFrame
  \/ SetThreshold \/ HideSpotlight \/ ToastTimeout
  \/ PickEmpty \/ PickStart
  \/ \E n \in {1, 2} : PickCountdown(n)
  \/ PickFinish
  \/ Tick

ClockSpec == Init /\ [][ClockNext]_vars

\* the stop control of the specification (section 6: start/stop toggle); no
\* handler in main.js writes the running flag
StopClick ==
  /\ running
  /\ running' = FALSE
  /\ UNCHANGED <<mainPc, statusEl, errors, camVars, loopVars, selVars, capVars, inferStream, minScore,
                 picks, spot, toast, now>>

\* the program with that control added
StopNext == ClockNext \/ StopClick

StopSpec == Init /\ [][StopNext]_vars

\* ---- captureSelectedCrop on its own, over a range of boxes and frames ----
Coords == (0 - MaxCoord)..(2 * MaxFrame + 1)
Sizes == 0..MaxSize
CaptureInputs ==
  [det : [class : {"person"}, score : {90}, bbox : Coords \X Coords \X Sizes \X Sizes],
   vw : 0..MaxFrame, vh : 0..MaxFrame, mode : {"user", "environment"}]

CaptureInit ==
  /\ Base /\ capArgs \in CaptureInputs /\ capRes = NotRun /\ rawPreds = <<>> /\ rawDone = TRUE
  /\ drawnAt = NoneDrawn
  /\ inferStream = "untracked"

CaptureRun ==
  /\ capRes = NotRun
  /\ capRes' = captureSelectedCrop(capArgs.det, capArgs.vw, capArgs.vh, capArgs.mode)
  /\ UNCHANGED <<mainVars, camVars, loopVars, selVars, capArgs, rawPreds, rawDone, drawnAt,
                 inferStream, minScore, picks, spot, toast, now>>

CaptureNext == CaptureRun

CaptureSpec == CaptureInit /\ [][CaptureNext]_vars

\* ---- draw on its own, with the detector result in view ----
FilterInit ==
  /\ Base /\ capArgs = NoArgs /\ capRes = NotRun
  /\ rawPreds \in SeqsUpTo(RawDetections, MaxPreds)
  /\ rawDone = FALSE
  /\ drawnAt = NoneDrawn
  /\ inferStream = "untracked"

\* the detector resolves with rawPreds: draw(rawPreds)
FilterDraw ==
  /\ ~rawDone
  /\ draw(rawPreds)
  /\ rawDone' = TRUE
  /\ drawnAt' = [drawnAt EXCEPT ![minScore] = [done |-> TRUE, out |-> currentPeople']]
  /\ UNCHANGED <<mainVars, camVars, inflight, rafLoop, selVars, capArgs, capRes, rawPreds,
                 inferStream, minScore, picks, spot, toast, now>>

\* the next cycle's inference is under way, on the same scene or another
FilterFeed ==
  /\ rawDone
  /\ rawPreds' \in SeqsUpTo(RawDetections, MaxPreds)
  /\ rawDone' = FALSE
  /\ drawnAt' = IF rawPreds' = rawPreds THEN drawnAt ELSE NoneDrawn
  /\ UNCHANGED <<mainVars, camVars, loopVars, selVars, capArgs, capRes, inferStream, minScore,
                 picks, spot, toast, now>>

FilterNext == FilterDraw \/ FilterFeed \/ SetThreshold

FilterSpec == FilterInit /\ [][FilterNext]_vars

\* ======================= properties =======================

\* C1: whenever a pick handler draws its index, 0 <= index < n for the size n
\* of the candidate list at that instant, and the detection handed to capture
\* is an element of the list.
C1_DrawnIndexInRange ==
  [][BagCardinality(picks') < BagCardinality(picks) =>
       /\ 0 <= selectedIdx'
       /\ selectedIdx' < Len(currentPeople)
       /\ At(currentPeople, selectedIdx') # Undefined]_vars

\* C2: after a refresh cycle the candidate list is exactly the sub-sequence of
\* that cycle's raw detections with class person and score >= the threshold
\* read in that cycle, in the detector's order; nothing of the previous list
\* is carried over.
C2_CandidatesAreFilteredDetections ==
  [][(~rawDone /\ rawDone') =>
       LET c == currentPeople'
           wanted == {j \in 1..Len(rawPreds) :
                        rawPreds[j].class = "person" /\ ~(rawPreds[j].score < minScore)}
       IN \E f \in [1..Len(c) -> 1..Len(rawPreds)] :
            /\ \A i \in 1..Len(c) : c[i] = rawPreds[f[i]]
            /\ \A i, j \in 1..Len(c) : i < j => f[i] < f[j]
            /\ {f[i] : i \in 1..Len(c)} = wanted]_vars

C2_Witness ==
  /\ rawDone
  /\ rawPreds = <<Person30, Person90>>
  /\ currentPeople = <<Person90>>

\* C3: a pick at time t sets the expiry to t + 3500, and a candidate is drawn
\* highlighted by a later render at time t' exactly when it sits at the stored
\* index and t' < t + 3500: active before the expiry, inactive at it and after.
C3_HighlightUntilExpiry ==
  [][/\ pickedAt' # Null => selectUntil' = pickedAt' + HighlightMs
     /\ pickedAt' # pickedAt => pickedAt' = now
     /\ inflight' < inflight =>
          \A i \in 1..Len(overlay') :
             overlay'[i] <=> (pickedAt # Null /\ selectedIdx = i - 1
                              /\ now < pickedAt + HighlightMs)]_vars

C3_Witness ==
  /\ pickedAt # Null
  /\ now = pickedAt + HighlightMs - 1
  /\ selectedIdx = 1
  /\ overlay = <<FALSE, TRUE>>

\* C4: capture returns none exactly when a frame side is unknown or a clamped
\* side is <= 1 (clamping as startX = max(0, floor x), width = min(frameWidth
\* - startX, floor w), likewise for y and h); otherwise it returns an image of
\* exactly the clamped width and height.
C4_NoneIffTooSmall ==
  capRes # NotRun =>
    LET b == capArgs.det.bbox
        fl(v) == CHOOSE n \in (0 - MaxCoord - 1)..(MaxFrame + MaxSize + 2) :
                   2 * n <= v /\ v < 2 * n + 2
        startX == IF fl(b[1]) > 0 THEN fl(b[1]) ELSE 0
        startY == IF fl(b[2]) > 0 THEN fl(b[2]) ELSE 0
        width == IF capArgs.vw - startX < fl(b[3]) THEN capArgs.vw - startX ELSE fl(b[3])
        height == IF capArgs.vh - startY < fl(b[4]) THEN capArgs.vh - startY ELSE fl(b[4])
        none == capArgs.vw = 0 \/ capArgs.vh = 0 \/ width <= 1 \/ height <= 1
    IN /\ (capRes.kind = "null") <=> none
       /\ ~none => (capRes.kind = "image" /\ capRes.w = width /\ capRes.h = height)

C4_Witness ==
  /\ capArgs.det.bbox = <<1, 2, 4, 5>>
  /\ capArgs.vw = 3 /\ capArgs.vh = 3
  /\ capRes.kind = "image" /\ capRes.w = 2 /\ capRes.h = 2

\* C5: capture returns none for every box that has no overlap with the frame,
\* whether it lies to the right, below, to the left or above.
C5_OutsideGivesNone ==
  (capRes # NotRun /\
     LET b == capArgs.det.bbox
     IN \/ b[1] >= 2 * capArgs.vw
        \/ b[2] >= 2 * capArgs.vh
        \/ b[1] + b[3] <= 0
        \/ b[2] + b[4] <= 0)
  => capRes.kind = "null"

\* C6: at most one inference is in flight, and none is in flight while a
\* frame callback of the loop is still scheduled, whatever the other handlers do.
C6_SingleFlight ==
  inflight + rafLoop <= 1

C6_Witness ==
  /\ inflight = 1
  /\ BagCardinality(picks) > 0
  /\ BagCardinality(gum) > 0
  /\ spot.show

\* C7: whenever capture produces a still, it is mirrored iff the stream that
\* feeds the preview was acquired with front orientation.
C7_MirrorMatchesStream ==
  [][(BagCardinality(picks') < BagCardinality(picks) /\ spot' # spot) =>
       (spot'.img.mirrored <=> video.src = "user")]_vars

\* C8: when start-up fails the error status is written once, the refresh loop
\* is never started (no inference, no scheduled frame, empty candidate list),
\* and main() neither leaves the failed state nor asks for the camera again.
C8_StartupFailureIsFatal ==
  [][/\ mainPc' = "error" =>
          /\ errors' = 1 /\ statusEl' = "Error"
          /\ inflight' = 0 /\ rafLoop' = 0 /\ currentPeople' = <<>>
          /\ \A g \in BagToSet(gum') : ~g.byMain
          /\ \A c \in BagToSet(setups') : ~c.byMain
     /\ mainPc = "error" => mainPc' = "error"
     /\ (inflight' + rafLoop' > 0) => mainPc' = "started"]_vars

C8_Witness ==
  /\ mainPc = "error"
  /\ video.ready
  /\ toast.text = NoStudentsMsg
  /\ BagCardinality(gum) > 0

\* C9: once start-up has succeeded and while running is true the loop stays
\* alive: a completed inference is rendered and followed by a scheduled frame,
\* a frame by a new inference, whatever the other handlers do.
C9_LoopNeverStops ==
  [][/\ (mainPc' = "started" /\ running') => inflight' + rafLoop' = 1
     /\ inflight' < inflight => (rafLoop' = rafLoop + 1 /\ Len(overlay') = Len(currentPeople'))
     /\ rafLoop' < rafLoop => inflight' = inflight + 1]_vars

C9_Witness ==
  /\ mainPc = "started"
  /\ selectedIdx = 0
  /\ currentPeople = <<>>
  /\ rafLoop = 1
  /\ BagCardinality(gum) = MaxCams

\* C10: a pick on an empty candidate list shows the no-candidates notice and
\* sets the index to none; it starts no countdown, draws nothing, captures
\* nothing, and leaves the list, the expiry, the spotlight and the loop as
\* they were. (The press is the one step that writes the toast or the index
\* without moving a countdown, flipping the camera or hiding the toast.)
C10_EmptyPickOnlyNotifies ==
  [][/\ BagCardinality(picks') > BagCardinality(picks) => Len(currentPeople) # 0
     /\ (Len(currentPeople) = 0 /\ (toast' # toast \/ selectedIdx' # selectedIdx)
           /\ picks' = picks /\ facingMode' = facingMode /\ toast'.show) =>
          /\ toast' = [text |-> NoStudentsMsg, show |-> TRUE]
          /\ selectedIdx' = Null
          /\ UNCHANGED <<currentPeople, selectUntil, spot, picks, inflight, rafLoop,
                         overlay, minScore>>]_vars

C10_Witness ==
  /\ toast = [text |-> NoStudentsMsg, show |-> TRUE]
  /\ selectedIdx = Null
  /\ selectUntil = HighlightMs
  /\ spot.show
  /\ mainPc = "started"

\* C11: for a fixed list of raw detections and thresholds t1 <= t2, the
\* candidates drawn under t2 are a sub-list of those drawn under t1, so raising
\* the threshold never increases the candidate count.
C11_FilterMonotonic ==
  \A t1, t2 \in Thresholds :
    (t1 <= t2 /\ drawnAt[t1].done /\ drawnAt[t2].done) =>
      LET lo == drawnAt[t1].out
          hi == drawnAt[t2].out
      IN /\ Len(hi) <= Len(lo)
         /\ \E f \in [1..Len(hi) -> 1..Len(lo)] :
              /\ \A i \in 1..Len(hi) : hi[i] = lo[f[i]]
              /\ \A i, j \in 1..Len(hi) : i < j => f[i] < f[j]

C11_Witness ==
  /\ rawPreds = <<Person60, Person90>>
  /\ drawnAt[50] = [done |-> TRUE, out |-> <<Person60, Person90>>]
  /\ drawnAt[90] = [done |-> TRUE, out |-> <<Person90>>]

\* C12: once the running flag is false, an inference that completes is not
\* acted upon (the overlay is not redrawn, the candidate list is not replaced)
\* and no further inference is started.
C12_StoppedResultIgnored ==
  [][~running =>
       /\ inflight' <= inflight
       /\ inflight' < inflight => (currentPeople' = currentPeople /\ overlay' = overlay)]_vars

\* C13: while the stream request of an orientation change is pending, the
\* tracks of the stream it replaces have already been stopped.
C13_TracksStoppedBeforeRequest ==
  \A g \in BagToSet(gum) : ~g.byMain => ~TracksLive

\* C14: at most one setupCamera call is between its start and its resolution,
\* also when the flip button is pressed during start-up or before an earlier
\* switch has resolved.
C14_OneAcquisitionAtATime ==
  BagCardinality(gum) + BagCardinality(setups) <= 1

\* C15: a refresh cycle never renders detections that were inferred from the
\* stream in use before an orientation switch once that switch has resolved
\* (its stream is installed and no setupCamera call is still on its way).
C15_RenderedFromCurrentStream ==
  [][inflight' < inflight =>
       ~(inferStream = "previous" /\ video.ready /\ setups = EmptyBag)]_vars

\* C16: in every state each element of the candidate list has class person
\* and a score >= the confidence threshold in effect in that state.
C16_CandidatesMeetThreshold ==
  \A i \in 1..Len(currentPeople) :
    currentPeople[i].class = "person" /\ currentPeople[i].score >= minScore

\* C17: a render highlights at most one candidate, the one at the stored
\* index; with the index none or past the end of the list it highlights none,
\* raises no error (every candidate is drawn and the next frame is requested)
\* and leaves the stored index and expiry as they were.
C17_StaleIndexSkipped ==
  [][inflight' < inflight =>
       LET lit == {i \in 1..Len(overlay') : overlay'[i]}
       IN /\ Cardinality(lit) <= 1
          /\ \A i \in lit : selectedIdx = i - 1
          /\ (selectedIdx = Null \/ selectedIdx >= Len(currentPeople')) => lit = {}
          /\ Len(overlay') = Len(currentPeople')
          /\ rafLoop' = rafLoop + 1
          /\ UNCHANGED <<selectedIdx, selectUntil>>]_vars

C17_Witness ==
  /\ selectedIdx = 1
  /\ now < selectUntil
  /\ currentPeople = <<Person90>>
  /\ overlay = <<FALSE>>
  /\ rafLoop = 1

C19_FailedCaptureIsNotified ==
  [][(/\ BagCardinality(picks') < BagCardinality(picks)
      /\ captureSelectedCrop(At(currentPeople, selectedIdx'), videoWidth, videoHeight,
                             facingMode).kind = "null") =>
       /\ toast'.show /\ toast'.text # "Selected!"
       /\ spot' = spot
       /\ UNCHANGED <<inflight, rafLoop, currentPeople, running>>]_vars

\* C20: whenever capture returns an image, the rectangle it reads lies inside
\* the frame and, within one pixel of rounding, inside the detection box:
\* it does not reach past the right or bottom edge of either.
C20_SourceRectInsideFrameAndBox ==
  capRes.kind = "image" =>
    LET b == capArgs.det.bbox
    IN /\ 0 <= capRes.sx /\ capRes.sx + capRes.w <= capArgs.vw
       /\ 0 <= capRes.sy /\ capRes.sy + capRes.h <= capArgs.vh
       /\ capRes.sx + capRes.w <= Floor(b[1]) + Floor(b[3]) + 1
       /\ capRes.sy + capRes.h <= Floor(b[2]) + Floor(b[4]) + 1

====
